---- MODULE Spec2Model ----
(***************************************************************************)
(* Model of the onediff graph-compilation caching and dispatch core:       *)
(*   - the stable-diffusion-webui script (scripts/onediff.py): the module  *)
(*     globals compiled_unet / compiled_ckpt_name, Script.need_compile,    *)
(*     Script.run and the UnetCompileCtx scope guard;                      *)
(*   - OneflowDeployableModule (infer_compiler/oneflow/                    *)
(*     deployable_module.py): get_graph, the entry points, to,             *)
(*     set_graph_file, _clear_old_graph, load_graph, save_graph,           *)
(*     apply_online_quant and from_existing;                               *)
(*   - oneflow_backend (infer_compiler/__init__.py): the interpreter       *)
(*     toggle and the tensor conversion around the compiled function.      *)
(***************************************************************************)
EXTENDS Integers, Sequences, FiniteSets, TLC

VARIABLES
    \* ---- scripts/onediff.py ----
    compiled_unet,        \* module global; Unbound after `del compiled_unet`
    compiled_ckpt_name,   \* module global
    current_type,         \* Script.current_type
    diffusion_model,      \* shared.sd_model.model.diffusion_model
    ucc_original_model,   \* UnetCompileCtx._original_model
    pc,                   \* position of Script.run: "idle" or "process_images"
    run,                  \* observation of the latest Script.run call
    nc_last,              \* observation of the latest need_compile call
    \* ---- oneflow/deployable_module.py ----
    wrapper,              \* the fields of one OneflowDeployableModule
    next_graph,           \* number of graphs get_oneflow_graph has constructed
    discarded,            \* handles dropped by _clear_old_graph
    last_op,              \* observation of the latest wrapper call
    clone,                \* the wrapper from_existing returned, if any
    \* ---- infer_compiler/__init__.py ----
    environ,              \* ONEDIFF_INFER_COMPILER_USE_INTERPRETER in os.environ
    backend,              \* the closure oneflow_backend returned, if any
    bk_call               \* observation of the latest wrapped_forward call

script_vars == <<compiled_unet, compiled_ckpt_name, current_type,
                 diffusion_model, ucc_original_model, pc, run, nc_last>>

wrapper_vars == <<wrapper, next_graph, discarded, last_op, clone>>

backend_vars == <<environ, backend, bk_call>>

vars == <<compiled_unet, compiled_ckpt_name, current_type,
          diffusion_model, ucc_original_model, pc, run, nc_last,
          wrapper, next_graph, discarded, last_op, clone,
          environ, backend, bk_call>>

(***************************************************************************)
(* Bounds                                                                  *)
(***************************************************************************)
NumCkpts == 2

MaxGraphs == 3

NumPaths == 2

MaxInputs == 2

MaxTrueFlags == 1

MaxMissingAttrs == 1

MaxLen == 2

(***************************************************************************)
(* Python values                                                           *)
(***************************************************************************)
None == [tag |-> "None"]

Unbound == [tag |-> "Unbound"]

CkptNames == <<"ckptA", "ckptB", "ckptC", "ckptD">>

\* The unet class of the model the host loads from a checkpoint.
UnetClassNames == <<"UNetModelLDM", "other", "UNetModelSGM", "UNetModelLDM">>

Ckpts == {CkptNames[i] : i \in 1..NumCkpts}

\* An attribute of the host model is absent, True or False.
AttrValues == {"missing", "True", "False"}

TypeKeys == {"is_sdxl", "is_sd2", "is_sd1", "is_ssd"}

Families ==
    {f \in [TypeKeys -> AttrValues] :
        /\ Cardinality({k \in TypeKeys : f[k] = "True"}) <= MaxTrueFlags
        /\ Cardinality({k \in TypeKeys : f[k] = "missing"}) <= MaxMissingAttrs}

HostModels == [attrs : Families]

UnetClassOf(ckpt) ==
    UnetClassNames[CHOOSE i \in 1..Len(CkptNames) : CkptNames[i] = ckpt]

\* getattr(model, key, False)
GetAttrMissingIsTrue(model, key) ==
    model.attrs[key] # "False"

GetAttr(model, key) ==
    IF model.attrs[key] = "missing" THEN FALSE ELSE model.attrs[key] = "True"

get_model_type(model) ==
    [key \in TypeKeys |-> GetAttr(model, key)]

\* The unet the host loaded for a checkpoint.
TorchUnet(ckpt) ==
    [ckpt |-> ckpt, unet_class |-> UnetClassOf(ckpt),
     form |-> "torch", quantized |-> FALSE]

ckpt_name_of(current_checkpoint, quantization) ==
    IF quantization THEN current_checkpoint \o "_quantized"
    ELSE current_checkpoint

\* compile_unet warns for a unet that is neither the LDM nor the SGM class.
compile_unet_warns(unet_model) ==
    unet_model.unet_class \notin {"UNetModelLDM", "UNetModelSGM"}

\* compile_unet can raise where it calls out: compile_ldm_unet or
\* compile_sgm_unet for a recognised class, get_calibrate_info and
\* quantize_model under quantization.
compile_unet_can_raise(unet_model, quantization) ==
    ~compile_unet_warns(unet_model) \/ quantization

compile_unet_compiles_any(unet_model, quantization) ==
    [unet_model EXCEPT !.form = "oneflow", !.quantized = quantization]

compile_unet(unet_model, quantization) ==
    LET compiled == IF unet_model.unet_class \in {"UNetModelLDM", "UNetModelSGM"}
                    THEN [unet_model EXCEPT !.form = "oneflow"]
                    ELSE unet_model
    IN IF quantization THEN [compiled EXCEPT !.quantized = TRUE] ELSE compiled

(***************************************************************************)
(* Script.need_compile                                                     *)
(***************************************************************************)
need_compile_recompile(stored, model) ==
    IF stored = None THEN TRUE
    ELSE \E key \in DOMAIN stored : stored[key] # GetAttr(model, key)

\* need_compile warns when it returns false while
\* ONEFLOW_MLIR_ENABLE_INFERENCE_OPTIMIZATION parses as true.
need_compile_warns(stored, model, mlir_opt) ==
    ~need_compile_recompile(stored, model) /\ mlir_opt

need_compile_type_first_only(stored, model) ==
    IF stored = None THEN get_model_type(model) ELSE stored

need_compile_type(stored, model) ==
    IF need_compile_recompile(stored, model) THEN get_model_type(model)
    ELSE stored

(***************************************************************************)
(* Script.run, up to the call of process_images                            *)
(***************************************************************************)
\* The attributes of the model that are literally True.
TrueFlags(model) == {key \in TypeKeys : model.attrs[key] = "True"}

NoRun ==
    [seq |-> 0, checkpoint |-> "", quantization |-> FALSE, true_flags |-> {},
     nc_called |-> FALSE, nc_ret |-> FALSE, nc_warned |-> FALSE,
     recompile |-> FALSE, built |-> FALSE, warned |-> FALSE,
     process_images |-> "none", outcome |-> "none"]

NoCall == [called |-> FALSE]

\* `quantization and ckpt_name != compiled_ckpt_name or self.need_compile(...)`:
\* need_compile is evaluated only when the left operand is false.
run_skips_need_compile(quantization, ckpt_name) ==
    quantization /\ ckpt_name # compiled_ckpt_name

\* compile_unet returns or raises; it is reached only when run recompiles and
\* `del compiled_unet` found the global bound.
CompileOutcomes(ckpt, model, quantization) ==
    IF /\ \/ run_skips_need_compile(quantization,
                                     ckpt_name_of(ckpt, quantization))
          \/ need_compile_recompile(current_type, model)
       /\ compiled_unet # Unbound
       /\ compile_unet_can_raise(TorchUnet(ckpt), quantization)
    THEN BOOLEAN ELSE {FALSE}

\* The parsed value of ONEFLOW_MLIR_ENABLE_INFERENCE_OPTIMIZATION; it is read
\* only when need_compile is evaluated and returns false.
MlirOptValues(ckpt, model, quantization) ==
    IF /\ ~run_skips_need_compile(quantization,
                                  ckpt_name_of(ckpt, quantization))
       /\ ~need_compile_recompile(current_type, model)
    THEN BOOLEAN ELSE {FALSE}

Run(ckpt, model, quantization, compile_raises, mlir_opt) ==
    LET original_diffusion_model == TorchUnet(ckpt)
        ckpt_name == ckpt_name_of(ckpt, quantization)
        shortcut == run_skips_need_compile(quantization, ckpt_name)
        nc_ret == need_compile_recompile(current_type, model)
        recompile == shortcut \/ nc_ret
        \* `del compiled_unet` raises NameError when the global is unbound
        del_raises == recompile /\ compiled_unet = Unbound
        raises == del_raises \/ (recompile /\ compile_raises)
        unet_after == IF ~recompile \/ del_raises THEN compiled_unet
                      ELSE IF compile_raises THEN Unbound
                      ELSE compile_unet(original_diffusion_model, quantization)
        \* UnetCompileCtx.__enter__ reads the global compiled_unet
        enter_raises == ~raises /\ unet_after = Unbound
    IN /\ pc = "idle"
       /\ current_type' = IF shortcut THEN current_type
                          ELSE need_compile_type(current_type, model)
       /\ nc_last' = IF shortcut THEN nc_last
                     ELSE [called |-> TRUE, true_flags |-> TrueFlags(model)]
       /\ compiled_unet' = unet_after
       /\ compiled_ckpt_name' = IF recompile /\ ~raises THEN ckpt_name
                                ELSE compiled_ckpt_name
       /\ run' = [seq |-> 1 - run.seq, checkpoint |-> ckpt,
                  quantization |-> quantization,
                  true_flags |-> TrueFlags(model),
                  nc_called |-> ~shortcut, nc_ret |-> ~shortcut /\ nc_ret,
                  nc_warned |-> ~shortcut /\ need_compile_warns(
                                    current_type, model, mlir_opt),
                  recompile |-> recompile,
                  built |-> recompile /\ ~del_raises,
                  warned |-> recompile /\ ~del_raises /\ compile_unet_warns(
                                 original_diffusion_model),
                  process_images |-> "none",
                  outcome |-> IF del_raises \/ enter_raises THEN "NameError"
                              ELSE IF raises THEN "CompileError"
                              ELSE "running"]
       /\ IF raises \/ enter_raises
          THEN /\ pc' = "idle"
               /\ diffusion_model' = original_diffusion_model
               /\ ucc_original_model' =
                      IF enter_raises THEN original_diffusion_model
                      ELSE ucc_original_model
          ELSE /\ pc' = "process_images"
               /\ ucc_original_model' = original_diffusion_model
               /\ diffusion_model' = unet_after
       /\ UNCHANGED wrapper_vars
       /\ UNCHANGED backend_vars

RunCall ==
    \E ckpt \in Ckpts, model \in HostModels, quantization \in BOOLEAN :
        \E compile_raises \in CompileOutcomes(ckpt, model, quantization),
           mlir_opt \in MlirOptValues(ckpt, model, quantization) :
            Run(ckpt, model, quantization, compile_raises, mlir_opt)

\* UnetCompileCtx.__exit__ puts back the module saved by __enter__ ...
exit_restored_model_unrestored == diffusion_model

exit_restored_model == ucc_original_model

\* ... and returns False: an exception of the body is not suppressed.
exit_return_value == FALSE

\* What the caller of Script.run sees when the with statement is left.
with_outcome(raised) ==
    IF raised /\ ~exit_return_value THEN "ProcessError" ELSE "ok"

\* process_images returns or raises; either way the with statement runs
\* UnetCompileCtx.__exit__.
ProcessImages(raised) ==
    /\ pc = "process_images"
    /\ diffusion_model' = exit_restored_model
    /\ run' = [run EXCEPT !.process_images =
                              IF raised THEN "raised" ELSE "returned",
                          !.outcome = with_outcome(raised)]
    /\ pc' = "idle"
    /\ UNCHANGED <<compiled_unet, compiled_ckpt_name, current_type,
                   ucc_original_model, nc_last>>
    /\ UNCHANGED wrapper_vars
    /\ UNCHANGED backend_vars

ProcessImagesReturns == ProcessImages(FALSE)

ProcessImagesRaises == ProcessImages(TRUE)

ScriptInit ==
    /\ compiled_unet = None
    /\ compiled_ckpt_name = "None"
    /\ current_type = None
    /\ diffusion_model \in {TorchUnet(ckpt) : ckpt \in Ckpts}
    /\ ucc_original_model = None
    /\ pc = "idle"
    /\ run = NoRun
    /\ nc_last = NoCall

NoWrapper ==
    /\ wrapper = None
    /\ next_graph = 0
    /\ discarded = {}
    /\ last_op = None
    /\ clone = None

\* The toggle is unset and oneflow_backend has not been called.
Unset == [set |-> FALSE, value |-> <<>>]

NoBackend ==
    /\ environ = Unset
    /\ backend = None
    /\ bk_call = None

Init == ScriptInit /\ NoWrapper /\ NoBackend

ScriptNext == RunCall \/ ProcessImagesReturns \/ ProcessImagesRaises

ScriptSpec == Init /\ [][ScriptNext]_vars

(***************************************************************************)
(* OneflowDeployableModule                                                 *)
(***************************************************************************)
\* Python's None where the other values are strings.
NoPath == "<None>"

NoDevice == "<None>"

PathNames == <<"/graphs/g1", "/graphs/g2", "/graphs/g3", "/graphs/g4">>

\* The arguments set_graph_file is called with: None, "" or a path.
GraphFiles == {NoPath, ""} \cup {PathNames[i] : i \in 1..NumPaths}

Devices == {"cpu", "cuda"}

NoQuantConfig == "<None>"

QuantConfigs == {"conv_int8", "linear_int8"}

\* Truth value of `file_path` in `if file_path and ...`
Truthy(file_path) == file_path \notin {NoPath, ""}

\* OneflowDeployableModule.__init__ with the options the caller passed.
NewWrapper(use_graph, graph_file, device, oneflow_module) ==
    [enable_dynamic |-> TRUE,            \* dynamic=True unless passed
     dpl_graph |-> None,
     load_graph_first_run |-> TRUE,
     quant_config |-> NoQuantConfig,
     input_count |-> Unbound,            \* __init__ does not assign it
     use_graph |-> use_graph,
     graph_file |-> graph_file,
     device |-> device,                  \* where the dual module lives
     oneflow_module |-> oneflow_module]  \* the dual module holds one

\* get_oneflow_graph: a new graph object over the oneflow module, whose
\* states live where the module lives.
get_oneflow_graph(w) ==
    [id |-> next_graph + 1, device |-> w.device, blocks |-> 1]

get_graph_builds(w) == w.dpl_graph = None

get_graph_rebuilds(w) ==
    [w EXCEPT !.dpl_graph = get_oneflow_graph(w), !.oneflow_module = TRUE]

\* get_graph: the wrapper after the call; its dpl_graph is the value returned.
\* Reading the dual module's oneflow_module creates it when absent.
get_graph(w) ==
    IF w.dpl_graph # None THEN w
    ELSE [w EXCEPT !.dpl_graph = get_oneflow_graph(w),
                   !.oneflow_module = TRUE]

\* graph_file_management: the call that follows is no longer the first run.
graph_file_management(w) ==
    IF w.use_graph THEN [w EXCEPT !.load_graph_first_run = FALSE] ELSE w

Op(name, arg, raised, delegated, built, invoked) ==
    [seq |-> IF last_op = None THEN 0 ELSE 1 - last_op.seq,
     op |-> name, arg |-> arg, raised |-> raised,
     delegated |-> delegated,   \* the dual module's to() was invoked
     built |-> built,           \* get_oneflow_graph was invoked
     invoked |-> invoked]       \* the handle that was called, or None

\* input_output_processor: the call's number of tensor inputs is the
\* wrapper's input-count expectation from then on.
input_output_processor(w, input_count) ==
    [w EXCEPT !.input_count = [n |-> input_count]]

entry_point_uses_graph_always(w) == TRUE

\* `if self._deployable_module_options.use_graph:`
entry_point_uses_graph(w) == w.use_graph

\* forward, apply_model and decode
EntryPoint(name) ==
    /\ wrapper # None
    /\ name \in {"forward", "apply_model", "decode"}
    /\ \E input_count \in 1..MaxInputs :
        IF entry_point_uses_graph(wrapper)
        THEN /\ get_graph_builds(wrapper) => next_graph < MaxGraphs
             /\ LET w == get_graph(wrapper)
                    built == w.dpl_graph # wrapper.dpl_graph
                IN /\ wrapper' = input_output_processor(
                                     graph_file_management(w), input_count)
                   /\ next_graph' = IF built THEN next_graph + 1
                                    ELSE next_graph
                   /\ last_op' = Op(name, "", FALSE, FALSE, built, w.dpl_graph)
        ELSE /\ wrapper' = input_output_processor(
                               graph_file_management(
                                   [wrapper EXCEPT !.oneflow_module = TRUE]),
                               input_count)
             /\ next_graph' = next_graph
             /\ last_op' = Op(name, "", FALSE, FALSE, FALSE, None)
    /\ UNCHANGED discarded
    /\ UNCHANGED clone
    /\ UNCHANGED script_vars
    /\ UNCHANGED backend_vars

Forward == EntryPoint("forward")

ApplyModel == EntryPoint("apply_model")

Decode == EntryPoint("decode")

\* check_device(current_device, target_device)
check_device(current_device, target_device) ==
    current_device = target_device

to_raises_never(w, target_device) == FALSE

\* to() raises when a graph with blocks is bound to another device.
to_raises(w, target_device) ==
    /\ w.dpl_graph # None
    /\ target_device # NoDevice
    /\ w.dpl_graph.blocks > 0
    /\ ~check_device(w.dpl_graph.device, target_device)

\* The dual module's to(): target_device is NoDevice for a dtype-only move.
dual_module_to(w, target_device) ==
    IF target_device = NoDevice THEN w ELSE [w EXCEPT !.device = target_device]

To(target_device) ==
    /\ wrapper # None
    /\ IF to_raises(wrapper, target_device)
       THEN /\ wrapper' = wrapper
            /\ last_op' = Op("to", target_device, TRUE, FALSE, FALSE, None)
       ELSE /\ wrapper' = dual_module_to(wrapper, target_device)
            /\ last_op' = Op("to", target_device, FALSE, TRUE, FALSE, None)
    /\ UNCHANGED <<next_graph, discarded>>
    /\ UNCHANGED clone
    /\ UNCHANGED script_vars
    /\ UNCHANGED backend_vars

ToCall == \E target_device \in Devices \cup {NoDevice} : To(target_device)

clear_old_graph_keeps_handle(w) ==
    [w EXCEPT !.load_graph_first_run = TRUE, !.oneflow_module = FALSE]

\* _clear_old_graph
clear_old_graph(w) ==
    [w EXCEPT !.load_graph_first_run = TRUE,
              !.dpl_graph = None,
              !.oneflow_module = FALSE]

\* set_graph_file returns early only for a truthy path equal to the old one.
set_graph_file_returns_early(w, file_path) ==
    Truthy(file_path) /\ w.graph_file = file_path

SetGraphFile(file_path) ==
    /\ wrapper # None
    /\ IF set_graph_file_returns_early(wrapper, file_path)
       THEN /\ wrapper' = wrapper
            /\ discarded' = discarded
       ELSE /\ wrapper' = clear_old_graph(
                              [wrapper EXCEPT !.graph_file = file_path])
            /\ discarded' = IF wrapper.dpl_graph = None THEN discarded
                            ELSE discarded \cup {wrapper.dpl_graph.id}
    /\ last_op' = Op("set_graph_file", file_path, FALSE, FALSE, FALSE, None)
    /\ UNCHANGED next_graph
    /\ UNCHANGED clone
    /\ UNCHANGED script_vars
    /\ UNCHANGED backend_vars

SetGraphFileCall == \E file_path \in GraphFiles : SetGraphFile(file_path)

\* The backend graph's load_graph refuses a device other than the one the
\* graph is bound to.
graph_load_raises(graph, device) ==
    device # NoDevice /\ device # graph.device

\* load_graph and save_graph: self.get_graph(), then the graph's own method.
Persist(name, device) ==
    /\ wrapper # None
    /\ get_graph_builds(wrapper) => next_graph < MaxGraphs
    /\ LET w == get_graph(wrapper)
           built == w.dpl_graph # wrapper.dpl_graph
       IN /\ wrapper' = w
          /\ next_graph' = IF built THEN next_graph + 1 ELSE next_graph
          /\ last_op' = Op(name, device,
                           name = "load_graph"
                               /\ graph_load_raises(w.dpl_graph, device),
                           FALSE, built, w.dpl_graph)
    /\ UNCHANGED discarded
    /\ UNCHANGED clone
    /\ UNCHANGED script_vars
    /\ UNCHANGED backend_vars

LoadGraph == \E device \in Devices \cup {NoDevice} : Persist("load_graph", device)

SaveGraph == Persist("save_graph", NoDevice)

\* apply_online_quant stores the configuration and does nothing else.
apply_online_quant(w, quant_config) ==
    [w EXCEPT !.quant_config = quant_config]

ApplyOnlineQuant(quant_config) ==
    /\ wrapper # None
    /\ wrapper' = apply_online_quant(wrapper, quant_config)
    /\ last_op' = Op("apply_online_quant", quant_config,
                     FALSE, FALSE, FALSE, None)
    /\ UNCHANGED <<next_graph, discarded>>
    /\ UNCHANGED clone
    /\ UNCHANGED script_vars
    /\ UNCHANGED backend_vars

ApplyOnlineQuantCall ==
    \E quant_config \in QuantConfigs : ApplyOnlineQuant(quant_config)

\* The options argument of from_existing: None or an options object.
NoOptions == [tag |-> "None"]

OptionsArgs ==
    {NoOptions} \cup [use_graph : BOOLEAN, graph_file : GraphFiles]

\* OneflowCompileOptions(): the options a wrapper gets when none are passed.
DefaultOptions == [use_graph |-> TRUE, graph_file |-> NoPath]

\* Reading existing_module._deployable_module_input_count raises
\* AttributeError while nothing has assigned it.
from_existing_raises(existing) == existing.input_count = Unbound

\* from_existing: a new instance over the same torch and oneflow modules,
\* then the four fields copied from the existing wrapper.
from_existing(existing, dynamic, options) ==
    LET opts == IF options = NoOptions THEN DefaultOptions ELSE options
        instance == [NewWrapper(opts.use_graph, opts.graph_file,
                                existing.device, existing.oneflow_module)
                        EXCEPT !.enable_dynamic = dynamic]
    IN [instance EXCEPT !.dpl_graph = existing.dpl_graph,
                        !.load_graph_first_run = existing.load_graph_first_run,
                        !.input_count = existing.input_count,
                        !.quant_config = existing.quant_config]

FromExisting(dynamic, options) ==
    /\ wrapper # None
    /\ clone = None
    /\ IF from_existing_raises(wrapper)
       THEN /\ clone' = clone
            /\ last_op' = Op("from_existing",
                             [dynamic |-> dynamic, options |-> options],
                             TRUE, FALSE, FALSE, None)
       ELSE /\ clone' = from_existing(wrapper, dynamic, options)
            /\ last_op' = Op("from_existing",
                             [dynamic |-> dynamic, options |-> options],
                             FALSE, FALSE, FALSE, None)
    /\ UNCHANGED <<wrapper, next_graph, discarded>>
    /\ UNCHANGED script_vars
    /\ UNCHANGED backend_vars

FromExistingCall ==
    \E dynamic \in BOOLEAN, options \in OptionsArgs :
        FromExisting(dynamic, options)

WrapperInit ==
    /\ wrapper \in {NewWrapper(use_graph, graph_file, device, oneflow_module) :
                       use_graph \in BOOLEAN, graph_file \in GraphFiles,
                       device \in Devices, oneflow_module \in BOOLEAN}
    /\ next_graph = 0
    /\ discarded = {}
    /\ last_op = None
    /\ clone = None

WrapperNext ==
    \/ Forward \/ ApplyModel \/ Decode \/ ToCall \/ SetGraphFileCall
    \/ LoadGraph \/ SaveGraph \/ ApplyOnlineQuantCall

\* The script is idle while the wrapper is exercised.
WrapperSpecInit ==
    /\ ScriptInit
    /\ diffusion_model = TorchUnet(CkptNames[1])
    /\ WrapperInit
    /\ NoBackend

WrapperSpec == WrapperSpecInit /\ [][WrapperNext]_vars

\* The wrapper's operations together with one call of from_existing.
CloneNext ==
    \/ Forward \/ SetGraphFileCall \/ ApplyOnlineQuantCall
    \/ FromExistingCall

CloneSpec == WrapperSpecInit /\ [][CloneNext]_vars

(***************************************************************************)
(* oneflow_backend                                                         *)
(***************************************************************************)
\* A string is a sequence of one-character strings.
Uppercase == <<"A", "B", "C", "D", "E", "F", "G", "H", "I", "J", "K", "L", "M",
               "N", "O", "P", "Q", "R", "S", "T", "U", "V", "W", "X", "Y", "Z">>

Lowercase == <<"a", "b", "c", "d", "e", "f", "g", "h", "i", "j", "k", "l", "m",
               "n", "o", "p", "q", "r", "s", "t", "u", "v", "w", "x", "y", "z">>

\* str.lower()
lower_char(c) ==
    IF \E i \in DOMAIN Uppercase : Uppercase[i] = c
    THEN Lowercase[CHOOSE i \in DOMAIN Uppercase : Uppercase[i] = c]
    ELSE c

lower(s) == [i \in DOMAIN s |-> lower_char(s[i])]

\* The values the toggle is given in the environment.
EnvValues ==
    { <<"t", "r", "u", "e">>, <<"T", "r", "u", "E">>, <<"1">>, <<"t">>, <<"T">>,
      <<"0">>, <<"y", "e", "s">>, <<>> }

Environs == {Unset} \cup {[set |-> TRUE, value |-> v] : v \in EnvValues}

\* os.getenv(name, default)
getenv(env, default) == IF env.set THEN env.value ELSE default

InterpTokens == { <<"t", "r", "u", "e">>, <<"1">>, <<"t">> }

with_interp_case_sensitive(env) ==
    getenv(env, <<"F", "a", "l", "s", "e">>) \in InterpTokens

with_interp(env) ==
    lower(getenv(env, <<"F", "a", "l", "s", "e">>)) \in InterpTokens

\* ---- the values a call passes ----
HostTensor(contiguous) == [kind |-> "torch.Tensor", contiguous |-> contiguous]

Scalar == [kind |-> "scalar", value |-> 7]

Leaves == {HostTensor(TRUE), HostTensor(FALSE), Scalar}

ContainerKinds == {"list", "tuple", "dict"}

DictKeys == <<"a", "b", "c", "d">>

\* A list, a tuple or a dict; a dict has a key for each item, in order.
Container(kind, items) ==
    [kind |-> kind,
     keys |-> IF kind = "dict" THEN SubSeq(DictKeys, 1, Len(items)) ELSE <<>>,
     items |-> items]

SeqsUpTo(S, n) == UNION {[1..k -> S] : k \in 0..n}

\* Containers of leaves, and containers that hold one of those.
Flat ==
    Leaves \cup {Container(kind, items) :
                    kind \in ContainerKinds, items \in SeqsUpTo(Leaves, MaxLen)}

ArgValues ==
    Flat \cup {Container(kind, <<f>>) : kind \in ContainerKinds, f \in Flat}

KwargValues == Leaves \cup {Container("list", <<l>>) : l \in Leaves}

\* *args is a tuple and **kwargs a dict.
ArgsTuples == {Container("tuple", <<>>)}
                \cup {Container("tuple", <<x>>) : x \in ArgValues}

KwargsDicts == {Container("dict", <<>>)}
                 \cup {Container("dict", <<y>>) : y \in KwargValues}

IsContainer(v) == v.kind \in ContainerKinds

\* ---- the tensor conversions ----
contiguous(t) == [t EXCEPT !.contiguous = TRUE]

from_torch(t) == [kind |-> "flow.Tensor", contiguous |-> t.contiguous]

input_fn(value) ==
    IF value.kind = "torch.Tensor" THEN from_torch(contiguous(value))
    ELSE value

\* ArgsTree.map_leaf: the function applied to every leaf of nested tuples,
\* lists and dicts, the containers rebuilt around the results.
RECURSIVE map_leaf(_)
map_leaf(v) ==
    IF IsContainer(v)
    THEN [v EXCEPT !.items = [i \in DOMAIN v.items |-> map_leaf(v.items[i])]]
    ELSE input_fn(v)

\* flow.utils.tensor.to_torch of a backend tensor; given anything else it
\* either raises or hands the value back, depending on the library version.
to_torch_raises(v, strict) == v.kind # "flow.Tensor" /\ strict

to_torch(v) ==
    IF v.kind = "flow.Tensor"
    THEN [kind |-> "torch.Tensor", contiguous |-> v.contiguous]
    ELSE v

\* What the traced graph module returns: every positional argument as a
\* tuple, the first positional argument, or the keyword argument.
GraphModules == {"returns_args", "returns_first_arg", "returns_kwarg"}

BackendTensor == [kind |-> "flow.Tensor", contiguous |-> TRUE]

gm_output(gm, args, kwargs) ==
    CASE gm = "returns_args" -> args
      [] gm = "returns_first_arg" ->
            IF Len(args.items) > 0 THEN args.items[1] ELSE BackendTensor
      [] gm = "returns_kwarg" ->
            IF Len(kwargs.items) > 0 THEN kwargs.items[1] ELSE BackendTensor

\* oneflow_backend(gm, example_inputs): reads the toggle once and returns the
\* closure wrapped_forward.
OneflowBackend(gm) ==
    /\ backend = None
    /\ backend' = [gm |-> gm,
                   with_interp |-> with_interp(environ),
                   transformed_fn |-> ~with_interp(environ)]
    /\ UNCHANGED <<environ, bk_call>>
    /\ UNCHANGED script_vars
    /\ UNCHANGED wrapper_vars

OneflowBackendCall == \E gm \in GraphModules : OneflowBackend(gm)

\* The host process changes the toggle, before or after the backend is
\* created; changes after the observed call are not followed.
SetEnv ==
    /\ bk_call = None
    /\ \E env \in Environs :
          /\ env # environ
          /\ environ' = env
    /\ UNCHANGED <<backend, bk_call>>
    /\ UNCHANGED script_vars
    /\ UNCHANGED wrapper_vars

\* The conversion of the compiled function's output.
output_raises(output, strict) ==
    IF output.kind = "tuple"
    THEN \E i \in DOMAIN output.items : to_torch_raises(output.items[i], strict)
    ELSE to_torch_raises(output, strict)

output_conversion(output) ==
    IF output.kind = "tuple"
    THEN [output EXCEPT
            !.items = [i \in DOMAIN output.items |-> to_torch(output.items[i])]]
    ELSE to_torch(output)

\* wrapped_forward(*args, **kwargs).
WrappedForward(args, kwargs, strict) ==
    /\ LET out == map_leaf(Container("tuple", <<args, kwargs>>))
           fn_args == out.items[1]
           fn_kwargs == kwargs
           output == gm_output(backend.gm, fn_args, fn_kwargs)
           raised == output_raises(output, strict)
       IN bk_call' = [args |-> args,
                      kwargs |-> kwargs,
                      fn_args |-> fn_args,
                      fn_kwargs |-> fn_kwargs,
                      paths |-> IF backend.with_interp
                                THEN {"interpreter"}
                                ELSE {"transformed"},
                      output |-> output,
                      raised |-> raised,
                      result |-> IF raised THEN None
                                 ELSE output_conversion(output)]
    /\ UNCHANGED <<environ, backend>>
    /\ UNCHANGED script_vars
    /\ UNCHANGED wrapper_vars

\* The model follows the first call of the closure; a call keeps no state.
WrappedForwardCall ==
    /\ backend # None
    /\ bk_call = None
    /\ \E args \in ArgsTuples, kwargs \in KwargsDicts, strict \in BOOLEAN :
          WrappedForward(args, kwargs, strict)

BackendNext == OneflowBackendCall \/ SetEnv \/ WrappedForwardCall

\* The script and the wrapper are idle while the backend is exercised.
BackendSpecInit ==
    /\ ScriptInit
    /\ diffusion_model = TorchUnet(CkptNames[1])
    /\ NoWrapper
    /\ NoBackend

BackendSpec == BackendSpecInit /\ [][BackendNext]_vars

(***************************************************************************)
(* Claims about scripts/onediff.py, checked under ScriptSpec               *)
(***************************************************************************)
\* A step that is one call of Script.run, up to process_images.
IsRunStep == run'.seq # run.seq

\* The signature a model has when a missing attribute counts as False.
Signature(true_flags) == [key \in TypeKeys |-> key \in true_flags]

SameRequest(r1, r2) ==
    /\ r1.checkpoint = r2.checkpoint
    /\ r1.quantization = r2.quantization
    /\ r1.true_flags = r2.true_flags

\* C1: need_compile returns true exactly when no signature is stored or a
\* stored flag differs from the model's flag (missing = False); hence a call
\* with the signature of the preceding call returns false and a call with a
\* different signature returns true.
C1_NeedCompileIff ==
    [][(IsRunStep /\ run'.nc_called) =>
        /\ run'.nc_ret <=>
              \/ current_type = None
              \/ \E key \in TypeKeys :
                    current_type[key] # (key \in run'.true_flags)
        /\ nc_last.called =>
              (run'.nc_ret <=> run'.true_flags # nc_last.true_flags)]_vars

C1_Witness ==
    /\ run.nc_called /\ ~run.nc_ret
    /\ run.true_flags # {}
    /\ nc_last.called /\ nc_last.true_flags = run.true_flags

\* C2: of two consecutive runs with the same identity (checkpoint and
\* quantization) and the same signature, the second does not call
\* compile_unet and keeps the compiled unet of the first.
C2_SecondRunReuses ==
    [][(/\ IsRunStep
        /\ run.outcome \in {"ok", "ProcessError"}
        /\ SameRequest(run, run')) =>
            /\ ~run'.built
            /\ compiled_unet' = compiled_unet]_vars

\* C3: whenever process_images executes, compiled_ckpt_name is the identity
\* of the current request.
C3_IdentityOfRequest ==
    pc = "process_images" =>
        compiled_ckpt_name = ckpt_name_of(run.checkpoint, run.quantization)

\* C4: after a run that decided to recompile, current_type is the signature
\* of the active model.
C4_TypeUpdatedOnRecompile ==
    run.recompile => current_type = Signature(run.true_flags)

\* C5: a compile_unet failure leaves the previously held compiled unet bound
\* and compiled_ckpt_name unchanged.
C5_FailureKeepsPrevious ==
    [][(/\ IsRunStep
        /\ run'.outcome = "CompileError"
        /\ compiled_unet \notin {None, Unbound}) =>
            /\ compiled_unet' = compiled_unet
            /\ compiled_ckpt_name' = compiled_ckpt_name]_vars

\* C6: the run that follows a failed compilation, for the same model and
\* identity, calls compile_unet again.
C6_RetryAfterFailure ==
    [][(/\ IsRunStep
        /\ run.outcome = "CompileError"
        /\ SameRequest(run, run')) => run'.built]_vars

\* C7: while process_images executes the host's diffusion_model is the
\* compiled unet; when the scope is left, by return or by exception, it is
\* again the module installed when the scope was entered, and an exception
\* reaches the caller.
C7_ScopedSubstitution ==
    /\ [](pc = "process_images" =>
            /\ compiled_unet \notin {None, Unbound}
            /\ diffusion_model = compiled_unet)
    /\ [][(pc = "process_images" /\ pc' = "idle") =>
            /\ diffusion_model' = TorchUnet(run.checkpoint)
            /\ (run'.process_images = "raised" <=>
                    run'.outcome = "ProcessError")]_vars

C7_Witness ==
    /\ pc = "idle"
    /\ run.process_images = "raised"
    /\ run.outcome = "ProcessError"
    /\ compiled_unet # TorchUnet(run.checkpoint)
    /\ diffusion_model = TorchUnet(run.checkpoint)

\* A step in which compile_unet was called with a unet of an unrecognised
\* class.
IsUnsupportedCompile ==
    /\ IsRunStep
    /\ run'.built
    /\ UnetClassOf(run'.checkpoint) \notin {"UNetModelLDM", "UNetModelSGM"}

\* C18 as stated: for an unrecognised unet class compile_unet does not fail,
\* warns and returns the input module itself, whatever quantization is.
C18_UnsupportedReturnsInput ==
    [][IsUnsupportedCompile =>
          /\ run'.warned
          /\ run'.outcome # "CompileError"
          /\ compiled_unet' = TorchUnet(run'.checkpoint)]_vars

\* C18 amended: for an unrecognised unet class compile_unet warns and never
\* compiles; with quantization false it cannot fail and returns the input
\* module itself; with quantization true it hands the uncompiled module to
\* quantize_model and returns the quantized module, or raises what
\* quantize_model raises.
C18_UnsupportedNeverCompiled ==
    [][IsUnsupportedCompile =>
          /\ run'.warned
          /\ ~run'.quantization =>
                /\ run'.outcome # "CompileError"
                /\ compiled_unet' = TorchUnet(run'.checkpoint)
          /\ (run'.quantization /\ run'.outcome # "CompileError") =>
                compiled_unet' =
                    [TorchUnet(run'.checkpoint) EXCEPT !.quantized = TRUE]]_vars

C18_Witness ==
    /\ run.built /\ run.warned /\ run.quantization
    /\ run.outcome = "ok"
    /\ compiled_unet.form = "torch"
    /\ compiled_unet.quantized

\* C19: need_compile writes the stored signature only when it returns true,
\* and then writes the model's signature; a call that returns false leaves it
\* as it is and at most warns; after every call the stored signature is the
\* signature of the model passed.
C19_StoredOnlyOnTrue ==
    /\ [][(IsRunStep /\ run'.nc_called) =>
             /\ run'.nc_ret => current_type' = Signature(run'.true_flags)
             /\ ~run'.nc_ret => current_type' = current_type
             /\ run'.nc_warned => ~run'.nc_ret
             /\ current_type' = Signature(run'.true_flags)]_vars
    /\ [][current_type' # current_type =>
             IsRunStep /\ run'.nc_called /\ run'.nc_ret]_vars

\* A call that stored a new signature over an older one, and a call that
\* returned false with a warning, are both reached.
C19_Witness ==
    /\ run.nc_called /\ ~run.nc_ret /\ run.nc_warned
    /\ current_type = Signature(run.true_flags)
    /\ run.true_flags # {}

(***************************************************************************)
(* Claims about OneflowDeployableModule, checked under WrapperSpec         *)
(***************************************************************************)
\* A step that is one call of the named wrapper method.
IsCall(name) ==
    /\ last_op' # None
    /\ last_op'.op = name
    /\ last_op = None \/ last_op'.seq # last_op.seq

IsEntryPointCall ==
    IsCall("forward") \/ IsCall("apply_model") \/ IsCall("decode")

\* C8: set_graph_file(p) on a wrapper whose graph file is already p changes
\* nothing, for every p including None and "".
C8_SamePathIsNoOp ==
    [][(IsCall("set_graph_file") /\ last_op'.arg = wrapper.graph_file) =>
            /\ wrapper' = wrapper
            /\ discarded' = discarded]_vars

\* C9: set_graph_file(q) with q different from the current graph file, on a
\* wrapper holding a graph, stores q, drops the handle and resets the
\* first-run flag; the next entry-point call with use_graph builds a new
\* handle, never a discarded one, and invokes it.
C9_NewPathInvalidates ==
    /\ [][(/\ IsCall("set_graph_file")
           /\ last_op'.arg # wrapper.graph_file
           /\ wrapper.dpl_graph # None) =>
               /\ wrapper'.graph_file = last_op'.arg
               /\ wrapper'.dpl_graph = None
               /\ wrapper'.load_graph_first_run
               /\ wrapper.dpl_graph.id \in discarded']_vars
    /\ [][(/\ IsEntryPointCall
           /\ wrapper.use_graph
           /\ wrapper.dpl_graph = None) =>
               /\ last_op'.built
               /\ wrapper'.dpl_graph # None
               /\ wrapper'.dpl_graph.id \notin discarded
               /\ last_op'.invoked = wrapper'.dpl_graph]_vars
    /\ [](wrapper.dpl_graph # None => wrapper.dpl_graph.id \notin discarded)

\* A graph was built, used, invalidated by a new path and built again.
C9_Witness ==
    /\ discarded # {}
    /\ wrapper.dpl_graph # None
    /\ last_op.op \in {"forward", "apply_model", "decode"}
    /\ last_op.built
    /\ Truthy(wrapper.graph_file)

\* C10: with a graph built on device Y, to(device=X), X # Y, raises, leaves
\* the wrapper as it was and does not call the dual module's to(); no to()
\* call changes the device of a built graph or builds a graph.
C10_DeviceIsFixed ==
    /\ [][(/\ IsCall("to")
           /\ wrapper.dpl_graph # None
           /\ last_op'.arg \notin {NoDevice, wrapper.dpl_graph.device}) =>
               /\ last_op'.raised
               /\ ~last_op'.delegated
               /\ wrapper' = wrapper]_vars
    /\ [][(IsCall("to") /\ wrapper.dpl_graph # None) =>
               /\ wrapper'.dpl_graph = wrapper.dpl_graph
               /\ wrapper'.device = wrapper.dpl_graph.device
               /\ next_graph' = next_graph]_vars
    /\ [](wrapper.dpl_graph # None =>
               wrapper.device = wrapper.dpl_graph.device)

C10_Witness ==
    /\ wrapper.dpl_graph # None
    /\ last_op.op = "to"
    /\ last_op.raised
    /\ last_op.arg # wrapper.dpl_graph.device

\* A step that is one call of forward, apply_model, decode, load_graph or
\* save_graph.
IsGraphUserCall ==
    IsEntryPointCall \/ IsCall("load_graph") \/ IsCall("save_graph")

\* C11: while a wrapper holds a handle, forward, apply_model, decode,
\* load_graph and save_graph construct no graph and keep the handle; a graph
\* is constructed only when there is none, and a handle goes away only by
\* set_graph_file, so get_oneflow_graph runs at most once between
\* invalidations.
C11_NoRebuildWhileBuilt ==
    /\ [][(IsGraphUserCall /\ wrapper.dpl_graph # None) =>
               /\ ~last_op'.built
               /\ next_graph' = next_graph
               /\ wrapper'.dpl_graph = wrapper.dpl_graph
               /\ last_op'.invoked \in {None, wrapper.dpl_graph}]_vars
    /\ [][next_graph' # next_graph =>
               /\ wrapper.dpl_graph = None
               /\ next_graph' = next_graph + 1
               /\ wrapper'.dpl_graph.id = next_graph']_vars
    /\ [][(wrapper.dpl_graph # None
             /\ wrapper'.dpl_graph # wrapper.dpl_graph) =>
               /\ IsCall("set_graph_file")
               /\ wrapper'.dpl_graph = None]_vars

C11_Witness ==
    /\ wrapper.dpl_graph # None
    /\ wrapper.input_count # Unbound
    /\ last_op.op = "load_graph"
    /\ ~last_op.built
    /\ last_op.invoked = wrapper.dpl_graph
    /\ next_graph = 1

\* C12: apply_online_quant with a configuration different from the stored
\* one, on a wrapper holding a graph, invalidates the graph: the handle is
\* no longer held, so that the next call rebuilds.
C12_QuantChangeInvalidates ==
    [][(/\ IsCall("apply_online_quant")
        /\ wrapper.dpl_graph # None
        /\ last_op'.arg # wrapper.quant_config) =>
            wrapper'.dpl_graph = None]_vars

\* C20: with use_graph enabled an entry point obtains the wrapper's handle,
\* building it when absent, and invokes it; with use_graph disabled it
\* invokes the module directly, builds nothing and leaves the handle as it
\* was.
C20_DispatchFollowsUseGraph ==
    [][IsEntryPointCall =>
          IF wrapper.use_graph
          THEN /\ wrapper'.dpl_graph # None
               /\ last_op'.invoked = wrapper'.dpl_graph
               /\ wrapper.dpl_graph # None =>
                      wrapper'.dpl_graph = wrapper.dpl_graph
               /\ last_op'.built <=> wrapper.dpl_graph = None
          ELSE /\ last_op'.invoked = None
               /\ ~last_op'.built
               /\ next_graph' = next_graph
               /\ wrapper'.dpl_graph = wrapper.dpl_graph]_vars

\* use_graph is disabled, a handle exists (load_graph made it) and forward
\* went to the module directly.
C20_Witness ==
    /\ ~wrapper.use_graph
    /\ wrapper.dpl_graph # None
    /\ last_op.op = "forward"
    /\ last_op.invoked = None

(***************************************************************************)
(* Claims about from_existing, checked under CloneSpec                     *)
(***************************************************************************)
\* C13: from_existing, on a wrapper in any state, returns a new wrapper with
\* the existing wrapper's handle, first-run flag, input count and quant
\* config, with the dynamic flag and the options of the arguments, and
\* leaves the existing wrapper unchanged.
C13_FromExistingCopies ==
    [][IsCall("from_existing") =>
          /\ ~last_op'.raised
          /\ clone' # None
          /\ clone'.dpl_graph = wrapper.dpl_graph
          /\ clone'.load_graph_first_run = wrapper.load_graph_first_run
          /\ clone'.input_count = wrapper.input_count
          /\ clone'.quant_config = wrapper.quant_config
          /\ clone'.enable_dynamic = last_op'.arg.dynamic
          /\ last_op'.arg.options # NoOptions =>
                /\ clone'.use_graph = last_op'.arg.options.use_graph
                /\ clone'.graph_file = last_op'.arg.options.graph_file
          /\ wrapper' = wrapper]_vars

\* C14: no graph handle is referenced by two wrappers at once, and a handle
\* a wrapper has cleared is not held by another wrapper.
C14_ExclusiveHandle ==
    clone # None =>
        /\ wrapper.dpl_graph # None => clone.dpl_graph # wrapper.dpl_graph
        /\ clone.dpl_graph # None => clone.dpl_graph.id \notin discarded

(***************************************************************************)
(* Claims about oneflow_backend, checked under BackendSpec                 *)
(***************************************************************************)
\* A step that is one call of oneflow_backend, of wrapped_forward.
IsBackendCreation == backend = None /\ backend' # None

IsWrappedForwardCall == bk_call = None /\ bk_call' # None

\* w is v with every host tensor replaced by a contiguous backend tensor and
\* everything else, containers, order and keys included, as it was.
RECURSIVE ConvertedFrom(_, _)
ConvertedFrom(v, w) ==
    IF v.kind = "torch.Tensor"
    THEN w = [kind |-> "flow.Tensor", contiguous |-> TRUE]
    ELSE IF v.kind \in {"list", "tuple", "dict"}
    THEN /\ w.kind = v.kind
         /\ w.keys = v.keys
         /\ Len(w.items) = Len(v.items)
         /\ \A i \in DOMAIN v.items : ConvertedFrom(v.items[i], w.items[i])
    ELSE w = v

\* C15: every host-tensor leaf of the positional and of the keyword
\* arguments, at any depth, reaches the compiled function or interpreter as
\* a contiguous backend tensor, every other leaf unchanged, and the nesting,
\* order and keys are preserved.
C15_EveryLeafConverted ==
    [][IsWrappedForwardCall =>
          /\ ConvertedFrom(bk_call'.args, bk_call'.fn_args)
          /\ ConvertedFrom(bk_call'.kwargs, bk_call'.fn_kwargs)]_vars

\* r has the structure of x: a host tensor wherever x has a tensor, x's
\* scalar wherever x has a scalar, the same containers, order and keys.
RECURSIVE SameStructure(_, _)
SameStructure(x, r) ==
    IF x.kind = "torch.Tensor"
    THEN r.kind = "torch.Tensor"
    ELSE IF x.kind \in {"list", "tuple", "dict"}
    THEN /\ r.kind = x.kind
         /\ r.keys = x.keys
         /\ Len(r.items) = Len(x.items)
         /\ \A i \in DOMAIN x.items : SameStructure(x.items[i], r.items[i])
    ELSE r = x

\* C16: the round trip keeps the structure: when the compiled function hands
\* back its converted argument x, a tensor or a nest of tensors and scalars,
\* the call returns a value with the structure of x, host tensors at the
\* tensor leaves and scalars unchanged.
C16_RoundTripKeepsStructure ==
    [][(/\ IsWrappedForwardCall
        /\ backend.gm = "returns_first_arg"
        /\ Len(bk_call'.args.items) = 1
        /\ bk_call'.args.items[1].kind # "scalar") =>
          /\ ~bk_call'.raised
          /\ SameStructure(bk_call'.args.items[1], bk_call'.result)]_vars

\* Equality of strings up to the case of their letters.
SameLetter(a, b) ==
    \/ a = b
    \/ \E k \in 1..26 : {a, b} = {Uppercase[k], Lowercase[k]}

EqualsIgnoringCase(s, t) ==
    /\ Len(s) = Len(t)
    /\ \A i \in DOMAIN s : SameLetter(s[i], t[i])

ToggleOn(env) ==
    /\ env.set
    /\ \E token \in {<<"t", "r", "u", "e">>, <<"1">>, <<"t">>} :
          EqualsIgnoringCase(env.value, token)

\* C17: the backend is created in interpreter mode exactly when the toggle,
\* compared case-insensitively, is "true", "1" or "t", and in transformed
\* mode for every other value and when it is unset; the mode never changes
\* after creation, and every call executes exactly one path, the one of the
\* mode selected at creation.
C17_InterpreterIffToggle ==
    /\ [][IsBackendCreation =>
             /\ backend'.with_interp = ToggleOn(environ)
             /\ backend'.transformed_fn = ~ToggleOn(environ)]_vars
    /\ [][backend # None => backend' = backend]_vars
    /\ [][IsWrappedForwardCall =>
             /\ bk_call'.paths \in {{"interpreter"}, {"transformed"}}
             /\ ("interpreter" \in bk_call'.paths) = backend.with_interp]_vars

\* A call took the interpreter path although the toggle has been switched
\* off since the backend was created.
C17_Witness ==
    /\ bk_call # None
    /\ bk_call.paths = {"interpreter"}
    /\ environ.set
    /\ ~ToggleOn(environ)

====
